---- MODULE Spec2Model ----
(***************************************************************************)
(* Model of wgomg/itzamna: the Python worker pool of internal/semantic     *)
(* (PythonWorkerPool / PythonWorker), its task queue, its callers and its  *)
(* inference processes.                                                    *)
(***************************************************************************)
EXTENDS Integers, Sequences, FiniteSets, TLC

\* ---------------------------------------------------------------- bounds
\* cfg.WorkerCount: the number of worker goroutines Initialize spawns.
WorkerCount == 2
\* The number of GetTagSuggestions / HealthCheck calls made over a run.
MaxTasks == 2
\* Capacity of taskQueue.  The program uses make(chan Task, 100); the model
\* runs the same channel semantics with a small capacity so that a full queue
\* is reached with MaxTasks callers.
QueueCap == 1

Workers == 1..WorkerCount
Tasks == 1..MaxTasks
NoTask == 0

\* ---------------------------------------------------------------- state
VARIABLES
    initResult,   \* Initialize: "none" (not called), "ok" (returned nil), "err"
    taskQueue,    \* p.taskQueue: the buffered tasks, oldest first
    queueClosed,  \* close(p.taskQueue) has run
    wg,           \* p.wg: the WaitGroup counter
    closePc,      \* Close: "idle", "waiting" (in wg.Wait), "returned"
    liveAtClose,  \* some worker was Ready or Busy when Close was called
    wstate,       \* per worker goroutine: Unspawned/Starting/Ready/BusyWrite/BusyRead/Closed
    exitReason,   \* per worker: "none", or why runWorker returned: "startfail",
                  \* "drained", "writefail", "eof", "malformed", "pyerror"
    handshook,    \* per worker: startWorker returned a worker (status "ready" read)
    cur,          \* per worker: the task it holds, NoTask when none
    reqWritten,   \* per worker: request lines written to stdin
    respRead,     \* per worker: response lines read from stdout
    proc,         \* per worker process: "none", "running", "killed" (by the pool),
                  \* "exited" (on its own)
    stdinOpen,    \* per worker: the pool's end of the stdin pipe is open
    stdoutOpen,   \* per worker: the pool's end of the stdout pipe is open
    tstate,       \* per call: "idle", "sending", "waiting", "done_ok", "done_err", "panicked"
    results,      \* per call: every TaskResult ever sent on its Result channel:
                  \* "ok" (Tags), or the error: "pyerror", "malformed", "eof",
                  \* "writefail"
    dequeuedBy,   \* per call: the workers that received it from taskQueue, in order
    panicCause,   \* "none", or why the Go process crashed
    cfgWritten,   \* per worker: configuration lines written by startWorker
    hsLines,      \* per worker: the lines startWorker read, by what they held:
                  \* "ready", "badstatus" (another status), "badjson"
    redIn,        \* the document and ReductionConfig handed to Handler.Process
    redOut,       \* what Process's reduction step gave back
    simIn,        \* two token lists and the selector's configured values
    simOut,       \* what jaccardSimilarity or the penalty step gave back
    items,        \* TagsCache.items: name -> CacheItem
    hits,         \* TagsCache.hits
    misses,       \* TagsCache.misses
    mu,           \* TagsCache.mu: 0 when free, else the caller holding Lock
    cop,          \* per caller: the cache operation it is in
    cret,         \* per caller: what its last operation returned
    ncalls,       \* cache operations started so far
    lookedUp,     \* the names GetMissingAndAdd has looked up
    passed,       \* how many names the GetMissingAndAdd calls were given
    tagsAdded,    \* the names AddNewTags wrote
    readDuringWrite, \* an unlocked read happened while a writer held Lock
    cacheFault,   \* "none", or the runtime's fatal error
    batch,        \* HandleProcessUntagged: the request's progress and counters
    sizing,       \* calculateDefaultWorkerCount on two machines: inputs and results
    loop          \* the selection loop of ReduceContent, iteration by iteration

vars == <<initResult, taskQueue, queueClosed, wg, closePc, liveAtClose, wstate,
          exitReason, handshook, cur, reqWritten, respRead, proc,
          stdinOpen, stdoutOpen, tstate, results, dequeuedBy, panicCause,
          cfgWritten, hsLines, redIn, redOut, simIn, simOut,
          items, hits, misses, mu, cop, cret, ncalls, lookedUp, passed, tagsAdded,
          readDuringWrite, cacheFault, batch, sizing, loop>>

poolVars == <<initResult, taskQueue, queueClosed, wg, closePc, liveAtClose>>
workerVars == <<wstate, exitReason, handshook, cur, reqWritten, respRead>>
procVars == <<proc, stdinOpen, stdoutOpen>>
callVars == <<tstate, results, dequeuedBy>>
hsVars == <<cfgWritten, hsLines>>
redVars == <<redIn, redOut>>
simVars == <<simIn, simOut>>
cacheVars == <<items, hits, misses, mu, cop, cret, ncalls, lookedUp, passed, tagsAdded,
               readDuringWrite, cacheFault>>
lateVars == <<batch, sizing, loop>>
auxVars == <<simVars, cacheVars, lateVars>>

\* No document is being processed.
NoDoc == [words |-> <<>>]
NoOut == [status |-> "none"]

\* No token lists are being compared.
NoSim == [a |-> <<>>]
SimIdle ==
    /\ simIn = NoSim
    /\ simOut = NoOut

\* The callers of the tag cache, and a caller that is in no operation.
Callers == {1, 2}
NoOp == [op |-> "none"]

\* No batch request has arrived and no worker count was asked for.
NoBatch == [pc |-> "idle"]
NoSizing == [cpuCores |-> 0]
NoLoop == [pc |-> "idle"]
LateIdle ==
    /\ batch = NoBatch
    /\ sizing = NoSizing
    /\ loop = NoLoop

\* NewTagsCache: an empty map and zero counters.
CacheInit ==
    /\ items = <<>>
    /\ hits = 0
    /\ misses = 0
    /\ mu = 0
    /\ cop = [p \in Callers |-> NoOp]
    /\ cret = [p \in Callers |-> NoOp]
    /\ ncalls = 0
    /\ lookedUp = {}
    /\ passed = 0
    /\ tagsAdded = {}
    /\ readDuringWrite = FALSE
    /\ cacheFault = "none"

\* NewPythonMatcher: an open, empty queue and no worker yet.
PoolInit ==
    /\ initResult = "none"
    /\ taskQueue = <<>>
    /\ queueClosed = FALSE
    /\ wg = 0
    /\ closePc = "idle"
    /\ liveAtClose = FALSE
    /\ wstate = [w \in Workers |-> "Unspawned"]
    /\ exitReason = [w \in Workers |-> "none"]
    /\ handshook = [w \in Workers |-> FALSE]
    /\ cur = [w \in Workers |-> NoTask]
    /\ reqWritten = [w \in Workers |-> 0]
    /\ respRead = [w \in Workers |-> 0]
    /\ proc = [w \in Workers |-> "none"]
    /\ stdinOpen = [w \in Workers |-> FALSE]
    /\ stdoutOpen = [w \in Workers |-> FALSE]
    /\ tstate = [t \in Tasks |-> "idle"]
    /\ results = [t \in Tasks |-> <<>>]
    /\ dequeuedBy = [t \in Tasks |-> <<>>]
    /\ panicCause = "none"
    /\ cfgWritten = [w \in Workers |-> 0]
    /\ hsLines = [w \in Workers |-> <<>>]

\* The service after NewMatcher was entered: the pool, and no document in
\* the reduction pipeline.
Init ==
    /\ PoolInit
    /\ redIn = NoDoc
    /\ redOut = NoOut
    /\ SimIdle
    /\ CacheInit
    /\ LateIdle

\* The Go process is alive: an uncaught panic ends every goroutine.
Running == panicCause = "none"

\* ------------------------------------------------------------- helpers
Live(w) == wstate[w] \in {"Ready", "BusyWrite", "BusyRead"}
Resolved(t) == Len(results[t]) >= 1
Pending(t) == tstate[t] \in {"sending", "waiting"}
Enqueued(t) == tstate[t] \in {"waiting", "done_ok", "done_err"}
InQueue(t) == \E i \in 1..Len(taskQueue) : taskQueue[i] = t
Occurrences(t) == Cardinality({i \in 1..Len(taskQueue) : taskQueue[i] = t})

\* A send on the buffered channel proceeds only while a slot is free.
CanSend_Unbounded == TRUE
CanSend == Len(taskQueue) < QueueCap

\* PythonWorker.close: close stdin, kill the process, close stdout.
WorkerClose(w) ==
    /\ stdinOpen' = [stdinOpen EXCEPT ![w] = FALSE]
    /\ stdoutOpen' = [stdoutOpen EXCEPT ![w] = FALSE]
    /\ proc' = [proc EXCEPT ![w] = IF @ = "running" THEN "killed" ELSE @]

\* runWorker's return: the deferred worker.close() and wg.Done().
WorkerReturn(w, why) ==
    /\ WorkerClose(w)
    /\ wstate' = [wstate EXCEPT ![w] = "Closed"]
    /\ exitReason' = [exitReason EXCEPT ![w] = why]
    /\ cur' = [cur EXCEPT ![w] = NoTask]
    /\ wg' = wg - 1

\* A variant of the error path that keeps the worker in the loop (continue
\* instead of return).
ErrorExit_KeepWorker(w, t, why) ==
    /\ results' = [results EXCEPT ![t] = Append(@, why)]
    /\ wstate' = [wstate EXCEPT ![w] = "Ready"]
    /\ cur' = [cur EXCEPT ![w] = NoTask]
    /\ UNCHANGED <<exitReason, wg, proc, stdinOpen, stdoutOpen>>

\* runWorker, processTask returned an error: the error is sent on the task's
\* Result channel and the goroutine returns.
ErrorExit(w, t, why) ==
    /\ results' = [results EXCEPT ![t] = Append(@, why)]
    /\ WorkerReturn(w, why)

\* A variant of the python-error path that has already sent the tags when it
\* finds the error field set.
PythonError_AfterSend(w, t) ==
    /\ results' = [results EXCEPT ![t] = Append(Append(@, "ok"), "pyerror")]
    /\ WorkerReturn(w, "pyerror")

\* processTask: resp.Error != "" returns an error, which runWorker handles
\* like every other error.
PythonError(w, t) == ErrorExit(w, t, "pyerror")

\* A variant of the success path that returns before the result is sent.
Success_NoSend(w, t) ==
    /\ wstate' = [wstate EXCEPT ![w] = "Ready"]
    /\ cur' = [cur EXCEPT ![w] = NoTask]
    /\ UNCHANGED <<results, exitReason, wg, proc, stdinOpen, stdoutOpen>>

\* processTask: the tags are sent on the Result channel, nil is returned and
\* the range loop takes the next task.
Success(w, t) ==
    /\ results' = [results EXCEPT ![t] = Append(@, "ok")]
    /\ wstate' = [wstate EXCEPT ![w] = "Ready"]
    /\ cur' = [cur EXCEPT ![w] = NoTask]
    /\ UNCHANGED <<exitReason, wg, proc, stdinOpen, stdoutOpen>>

\* ------------------------------------------------------------- the pool
\* Initialize: setupEnvironment, then one goroutine per worker; it returns
\* without waiting for any of them.
Initialize ==
    /\ Running
    /\ initResult = "none"
    /\ \E setup \in {"ok", "fail"} :
         IF setup = "fail"
         THEN /\ initResult' = "err"
              /\ UNCHANGED <<wg, wstate>>
         ELSE /\ initResult' = "ok"
              /\ wg' = wg + WorkerCount
              /\ wstate' = [w \in Workers |-> "Starting"]
    /\ UNCHANGED <<taskQueue, queueClosed, closePc, liveAtClose, exitReason,
                   handshook, cur, reqWritten, respRead, procVars,
                   callVars, panicCause>>
    /\ UNCHANGED <<hsVars, redVars, auxVars>>

StartFailures == {"sendfail", "noline", "badjson", "badstatus"}
StartOutcomes == {"launchfail", "ready"} \cup StartFailures
\* The outcomes in which the configuration line was written, and those in
\* which a line was read back.
ConfigSent == {"noline", "badjson", "badstatus", "ready"}
LineRead == {"badjson", "badstatus", "ready"}

\* A variant of the handshake check that does not look at the status.
StartSucceeds_AnyStatus(o) == o \in {"ready", "badstatus"}

\* startWorker returns a worker only for a line that parses and whose
\* status is "ready".
StartSucceeds(o) == o = "ready"

\* runWorker's first half: startWorker launches the process, writes the
\* configuration line and reads the READY line.
startWorker(w) ==
    /\ Running
    /\ wstate[w] = "Starting"
    /\ \E o \in StartOutcomes :
         /\ cfgWritten' = [cfgWritten EXCEPT ![w] = IF o \in ConfigSent THEN @ + 1 ELSE @]
         /\ hsLines' = [hsLines EXCEPT ![w] = IF o \in LineRead THEN Append(@, o) ELSE @]
         /\ CASE o = "launchfail" ->
                \* the pipes or cmd.Start failed: no process
                /\ wstate' = [wstate EXCEPT ![w] = "Closed"]
                /\ exitReason' = [exitReason EXCEPT ![w] = "startfail"]
                /\ wg' = wg - 1
                /\ UNCHANGED <<handshook, procVars>>
           [] o # "launchfail" /\ ~StartSucceeds(o) ->
                \* the process was started; both pipes are closed; it is not
                \* killed, and whether it ends on its own is up to the process
                /\ wstate' = [wstate EXCEPT ![w] = "Closed"]
                /\ exitReason' = [exitReason EXCEPT ![w] = "startfail"]
                /\ wg' = wg - 1
                /\ \E p \in {"running", "exited"} : proc' = [proc EXCEPT ![w] = p]
                /\ UNCHANGED <<handshook, stdinOpen, stdoutOpen>>
           [] o # "launchfail" /\ StartSucceeds(o) ->
                /\ wstate' = [wstate EXCEPT ![w] = "Ready"]
                /\ handshook' = [handshook EXCEPT ![w] = TRUE]
                /\ proc' = [proc EXCEPT ![w] = "running"]
                /\ stdinOpen' = [stdinOpen EXCEPT ![w] = TRUE]
                /\ stdoutOpen' = [stdoutOpen EXCEPT ![w] = TRUE]
                /\ UNCHANGED <<exitReason, wg>>
    /\ UNCHANGED <<initResult, taskQueue, queueClosed, closePc, liveAtClose,
                   cur, reqWritten, respRead, callVars, panicCause>>
    /\ UNCHANGED <<redVars, auxVars>>

\* for task := range p.taskQueue: a task is received.
Dequeue(w) ==
    /\ Running
    /\ wstate[w] = "Ready"
    /\ taskQueue # <<>>
    /\ LET t == Head(taskQueue) IN
         /\ taskQueue' = Tail(taskQueue)
         /\ cur' = [cur EXCEPT ![w] = t]
         /\ dequeuedBy' = [dequeuedBy EXCEPT ![t] = Append(@, w)]
    /\ wstate' = [wstate EXCEPT ![w] = "BusyWrite"]
    /\ UNCHANGED <<initResult, queueClosed, wg, closePc, liveAtClose, exitReason,
                   handshook, reqWritten, respRead, procVars, tstate, results,
                   panicCause>>
    /\ UNCHANGED <<hsVars, redVars, auxVars>>

\* for task := range p.taskQueue: the queue is closed and empty, the loop
\* ends and runWorker returns.
RangeEnd(w) ==
    /\ Running
    /\ wstate[w] = "Ready"
    /\ taskQueue = <<>>
    /\ queueClosed
    /\ WorkerReturn(w, "drained")
    /\ UNCHANGED <<initResult, taskQueue, queueClosed, closePc, liveAtClose,
                   handshook, reqWritten, respRead, callVars, panicCause>>
    /\ UNCHANGED <<hsVars, redVars, auxVars>>

\* A variant of the write step that does not wait for the response line.
RequestWritten_NoWait(w) ==
    /\ reqWritten' = [reqWritten EXCEPT ![w] = @ + 1]
    /\ wstate' = [wstate EXCEPT ![w] = "Ready"]

\* processTask: the request line is on the worker's stdin; the worker goes
\* on to scanner.Scan.
RequestWritten(w) ==
    /\ reqWritten' = [reqWritten EXCEPT ![w] = @ + 1]
    /\ wstate' = [wstate EXCEPT ![w] = "BusyRead"]

\* processTask up to w.stdin.Write.  The write fails when the process has
\* gone or has closed its input.
WriteRequest(w) ==
    /\ Running
    /\ wstate[w] = "BusyWrite"
    /\ \E o \in {"ok", "writefail"} :
         IF o = "ok"
         THEN /\ RequestWritten(w)
              /\ UNCHANGED <<results, exitReason, cur, wg, procVars>>
         ELSE /\ ErrorExit(w, cur[w], "writefail")
              /\ UNCHANGED reqWritten
    /\ UNCHANGED <<initResult, taskQueue, queueClosed, closePc, liveAtClose,
                   handshook, respRead, tstate, dequeuedBy, panicCause>>
    /\ UNCHANGED <<hsVars, redVars, auxVars>>

\* What scanner.Scan and json.Unmarshal can yield for one request.
\*   ok           a line with error empty, debug_info and cache_stats present
\*   pyerror      a line with error set
\*   malformed    a line that is not JSON
\*   eof          no line: stdout closed or a read error
\*   nodebug      a line with error empty and no debug_info
\*   nocachestats a line with error empty, debug_info present, no cache_stats
LineOutcomes == {"ok", "pyerror", "malformed", "nodebug", "nocachestats"}
RespOutcomes == LineOutcomes \cup {"eof"}

\* processTask from scanner.Scan on, and runWorker's handling of its result.
ReadResponse(w) ==
    /\ Running
    /\ wstate[w] = "BusyRead"
    /\ \E o \in RespOutcomes :
         /\ respRead' = [respRead EXCEPT ![w] = IF o \in LineOutcomes THEN @ + 1 ELSE @]
         /\ CASE o = "ok" ->
                   /\ Success(w, cur[w])
                   /\ UNCHANGED panicCause
              [] o = "pyerror" ->
                   /\ PythonError(w, cur[w])
                   /\ UNCHANGED panicCause
              [] o \in {"malformed", "eof"} ->
                   /\ ErrorExit(w, cur[w], o)
                   /\ UNCHANGED panicCause
              [] o \in {"nodebug", "nocachestats"} ->
                   \* resp.DebugInfo.* dereferences a nil pointer
                   /\ panicCause' = "nil_deref"
                   /\ UNCHANGED <<results, wstate, exitReason, cur, wg, procVars>>
    /\ UNCHANGED <<initResult, taskQueue, queueClosed, closePc, liveAtClose,
                   handshook, reqWritten, tstate, dequeuedBy>>
    /\ UNCHANGED <<hsVars, redVars, auxVars>>

\* Close: close(p.taskQueue), then p.wg.Wait().
Close_Call ==
    /\ Running
    /\ initResult = "ok"
    /\ closePc = "idle"
    /\ queueClosed' = TRUE
    /\ closePc' = "waiting"
    /\ liveAtClose' = (\E w \in Workers : Live(w))
    /\ UNCHANGED <<initResult, taskQueue, wg, workerVars, procVars, callVars,
                   panicCause>>
    /\ UNCHANGED <<hsVars, redVars, auxVars>>

\* Close: wg.Wait() returns once every goroutine has called wg.Done().
Close_Return ==
    /\ Running
    /\ closePc = "waiting"
    /\ wg = 0
    /\ closePc' = "returned"
    /\ UNCHANGED <<initResult, taskQueue, queueClosed, wg, liveAtClose,
                   workerVars, procVars, callVars, panicCause>>
    /\ UNCHANGED <<hsVars, redVars, auxVars>>

\* ------------------------------------------------------------- callers
\* Calls are numbered in the order they are made.
NextCall(t) == tstate[t] = "idle" /\ \A u \in Tasks : u < t => tstate[u] # "idle"

Call(t) ==
    /\ Running
    /\ initResult = "ok"
    /\ NextCall(t)
    /\ tstate' = [tstate EXCEPT ![t] = "sending"]
    /\ UNCHANGED <<poolVars, workerVars, procVars, results, dequeuedBy, panicCause>>
    /\ UNCHANGED <<hsVars, redVars, auxVars>>

\* GetTagSuggestions up to the send: the task and its Result channel exist.
GetTagSuggestions(t) == Call(t)

\* HealthCheck up to the send: the same task with a fixed text and tag list.
HealthCheck(t) == Call(t)

\* A variant of the send that goes through on a closed queue.
Enqueue_AfterClose(t) ==
    /\ Running
    /\ tstate[t] = "sending"
    /\ CanSend
    /\ taskQueue' = Append(taskQueue, t)
    /\ tstate' = [tstate EXCEPT ![t] = "waiting"]
    /\ UNCHANGED <<initResult, queueClosed, wg, closePc, liveAtClose, workerVars,
                   procVars, results, dequeuedBy, panicCause, hsVars, redVars, auxVars>>

\* p.taskQueue <- task: blocks while the queue is full, panics once the
\* queue is closed.
Enqueue(t) ==
    /\ Running
    /\ tstate[t] = "sending"
    /\ IF queueClosed
       THEN /\ tstate' = [tstate EXCEPT ![t] = "panicked"]
            /\ panicCause' = "send_closed"
            /\ UNCHANGED taskQueue
       ELSE /\ CanSend
            /\ taskQueue' = Append(taskQueue, t)
            /\ tstate' = [tstate EXCEPT ![t] = "waiting"]
            /\ UNCHANGED panicCause
    /\ UNCHANGED <<initResult, queueClosed, wg, closePc, liveAtClose, workerVars,
                   procVars, results, dequeuedBy>>
    /\ UNCHANGED <<hsVars, redVars, auxVars>>

\* res := <-result; return res.Tags, res.Err (HealthCheck: nil or the wrapped
\* error).
ReceiveResult(t) ==
    /\ Running
    /\ tstate[t] = "waiting"
    /\ Resolved(t)
    /\ tstate' = [tstate EXCEPT ![t] = IF results[t][1] = "ok" THEN "done_ok" ELSE "done_err"]
    /\ UNCHANGED <<poolVars, workerVars, procVars, results, dequeuedBy, panicCause>>
    /\ UNCHANGED <<hsVars, redVars, auxVars>>

Next ==
    \/ Initialize
    \/ Close_Call
    \/ Close_Return
    \/ \E w \in Workers : startWorker(w)
    \/ \E w \in Workers : Dequeue(w)
    \/ \E w \in Workers : RangeEnd(w)
    \/ \E w \in Workers : WriteRequest(w)
    \/ \E w \in Workers : ReadResponse(w)
    \/ \E t \in Tasks : GetTagSuggestions(t)
    \/ \E t \in Tasks : HealthCheck(t)
    \/ \E t \in Tasks : Enqueue(t)
    \/ \E t \in Tasks : ReceiveResult(t)

Spec == Init /\ [][Next]_vars

\* Scheduling: every goroutine that can take a step eventually takes it, and
\* a process that was sent a request eventually answers or closes its output.
\* Nothing obliges a caller to call or the owner to Close.
Fairness ==
    /\ \A w \in Workers : WF_vars(startWorker(w))
    /\ \A w \in Workers : WF_vars(Dequeue(w))
    /\ \A w \in Workers : WF_vars(RangeEnd(w))
    /\ \A w \in Workers : WF_vars(WriteRequest(w))
    /\ \A w \in Workers : WF_vars(ReadResponse(w))
    /\ \A t \in Tasks : WF_vars(Enqueue(t))
    /\ \A t \in Tasks : WF_vars(ReceiveResult(t))
    /\ WF_vars(Close_Return)

FairSpec == Spec /\ Fairness

\* The warm-up loop of the deployment notes: one GetTagSuggestions call per
\* worker, each made only after the one before it returned.
WarmupCalls == 1..WorkerCount

WarmCall(t) ==
    /\ t \in WarmupCalls
    /\ \A u \in Tasks : u < t => Resolved(u)
    /\ GetTagSuggestions(t)

\* The service between NewMatcher and the first HTTP request, running the
\* warm-up loop: no other caller, no Close.
WarmNext ==
    \/ Initialize
    \/ \E w \in Workers : startWorker(w)
    \/ \E w \in Workers : Dequeue(w)
    \/ \E w \in Workers : WriteRequest(w)
    \/ \E w \in Workers : ReadResponse(w)
    \/ \E t \in Tasks : WarmCall(t)
    \/ \E t \in Tasks : Enqueue(t)
    \/ \E t \in Tasks : ReceiveResult(t)

WarmSpec == Init /\ [][WarmNext]_vars

\* Scheduling when the Python process is free not to answer: the goroutines
\* take their steps, the response line may never come.
HangFairness ==
    /\ \A w \in Workers : WF_vars(startWorker(w))
    /\ \A w \in Workers : WF_vars(Dequeue(w))
    /\ \A w \in Workers : WF_vars(RangeEnd(w))
    /\ \A w \in Workers : WF_vars(WriteRequest(w))
    /\ \A t \in Tasks : WF_vars(Enqueue(t))
    /\ \A t \in Tasks : WF_vars(ReceiveResult(t))
    /\ WF_vars(Close_Return)

HangSpec == Spec /\ HangFairness

\* ------------------------------------------------------ content reduction
\* A document's content is its whitespace-separated words, a word is its
\* characters. "$" stands for the characters CleanUp deletes, "-" for the
\* other non-alphanumeric ones.
MaxWords == 4
MaxChunkSize == 3
MaxTarget == 4
Alnum == {"a", "b"}
Stripped == {"$"}
Vocabulary == {<<"a">>, <<"b", "-", "a">>, <<"$">>}
ThresholdChoices == {1, 4}
ScoreLevels == {1, 2, 3}

RECURSIVE SeqsUpTo(_, _)
SeqsUpTo(S, n) ==
    IF n = 0 THEN {<<>>}
    ELSE LET shorter == SeqsUpTo(S, n - 1)
         IN shorter \cup {Append(q, x) : q \in {r \in shorter : Len(r) = n - 1}, x \in S}

\* ReductionConfig values with Overlap < ChunkSize.
Configs ==
    {[ChunkSize |-> c, Overlap |-> o, TargetWords |-> t, ThresholdTokens |-> th] :
        c \in 1..MaxChunkSize, o \in 0..(MaxChunkSize - 1), t \in 0..MaxTarget,
        th \in ThresholdChoices}

ReduceInputs ==
    {[words |-> d, cfg |-> c] :
        d \in SeqsUpTo(Vocabulary, MaxWords) \ {<<>>},
        c \in {k \in Configs : k.Overlap < k.ChunkSize}}

\* utils.CleanUp, word by word: the listed characters are deleted.
CleanWord(w) == SelectSeq(w, LAMBDA ch : ch \notin Stripped)
CleanUp(content) == [i \in 1..Len(content) |-> CleanWord(content[i])]

\* strings.Fields: the non-empty runs between white space.
Fields(content) == SelectSeq(content, LAMBDA w : w # <<>>)

CountWords(content) == Len(Fields(content))

\* int(math.Round(float64(wordCount) * 1.3))
EstimateTokensFromWords(wordCount) == (13 * wordCount + 5) \div 10

EstimateTokens(content) == EstimateTokensFromWords(CountWords(CleanUp(content)))

ShouldReduceContent(estimatedTokens, thresholdTokens) == estimatedTokens > thresholdTokens

\* Go's integer division truncates toward zero.
GoDiv(a, b) ==
    IF a >= 0 THEN (IF b > 0 THEN a \div b ELSE -(a \div (-b)))
    ELSE (IF b > 0 THEN -((-a) \div b) ELSE (-a) \div (-b))

\* re.Split(word, -1) without the empty strings.
RECURSIVE SplitWord(_, _, _)
SplitWord(w, i, tok) ==
    LET done == IF tok = <<>> THEN <<>> ELSE <<tok>> IN
    IF i > Len(w) THEN done
    ELSE IF w[i] \in Alnum THEN SplitWord(w, i + 1, Append(tok, w[i]))
    ELSE done \o SplitWord(w, i + 1, <<>>)

RECURSIVE ChunkTokens(_)
ChunkTokens(ws) ==
    IF ws = <<>> THEN <<>> ELSE SplitWord(Head(ws), 1, <<>>) \o ChunkTokens(Tail(ws))

Range(q) == {q[i] : i \in 1..Len(q)}

\* The keys of a frequency map as a list: each token once (the order Go
\* gives them in is unspecified; first occurrence is taken here).
RECURSIVE Dedup(_)
Dedup(q) ==
    IF q = <<>> THEN <<>>
    ELSE LET front == Dedup(SubSeq(q, 1, Len(q) - 1)) IN
         IF q[Len(q)] \in Range(front) THEN front ELSE Append(front, q[Len(q)])

\* A variant of the chunker that counts the chunks on the word count alone.
ChunkCount_NoOverlap(n, chunkSize, overlap) == GoDiv(n, chunkSize - overlap)

\* totalChunks := (len(words) - overlap) / stepSize
ChunkCount(n, chunkSize, overlap) == GoDiv(n - overlap, chunkSize - overlap)

\* A variant in which chunks start one word late.
ChunkStart_OneLate(i, stepSize) == i * stepSize + 1

\* startWordIndex := i * stepSize
ChunkStart(i, stepSize) == i * stepSize

\* createChunks. A slice expression beyond the words is a run-time panic.
createChunks(words, chunkSize, overlap) ==
    LET stepSize == chunkSize - overlap
        totalChunks == ChunkCount(Len(words), chunkSize, overlap)
        mk(i) ==
            LET startWordIndex == ChunkStart(i, stepSize)
                endWordIndex == startWordIndex + chunkSize
                chunkWords == SubSeq(words, startWordIndex + 1, endWordIndex)
            IN [Id |-> i,
                Words |-> chunkWords,
                StartWordIndex |-> startWordIndex,
                EndWordIndex |-> endWordIndex,
                WordCount |-> Len(chunkWords),
                Tokens |-> ChunkTokens(chunkWords),
                UniqueTokens |-> Dedup(ChunkTokens(chunkWords))]
    IN IF \E i \in 0..(totalChunks - 1) : ChunkStart(i, stepSize) + chunkSize > Len(words)
       THEN [status |-> "panic", chunks |-> <<>>]
       ELSE [status |-> "ok", chunks |-> [j \in 1..totalChunks |-> mk(j - 1)]]

\* A variant that takes two empty lists for identical ones.
jaccardSimilarity_EmptyAlike(a, b) ==
    IF Len(a) = 0 /\ Len(b) = 0 THEN [n |-> 1, d |-> 1]
    ELSE LET set == Range(a)
             intersection == Cardinality({i \in 1..Len(b) : b[i] \in set})
         IN [n |-> intersection, d |-> Len(a) + Len(b) - intersection]

\* jaccardSimilarity, the float64 it returns written as the fraction n/d
\* (0/1 for two empty lists).
jaccardSimilarity(a, b) ==
    IF Len(a) = 0 /\ Len(b) = 0 THEN [n |-> 0, d |-> 1]
    ELSE LET set == Range(a)
             intersection == Cardinality({i \in 1..Len(b) : b[i] \in set})
             union == Len(a) + Len(b) - intersection
         IN [n |-> intersection, d |-> union]

\* The factor the selection loop applies to a remaining chunk: none up to a
\* similarity of 0.15, else 1 - 2*similarity, at least 0.1.
Penalty(sim) ==
    IF 100 * sim.n > 15 * sim.d
    THEN IF 10 * (sim.d - 2 * sim.n) < sim.d
         THEN [n |-> 1, d |-> 10]
         ELSE [n |-> sim.d - 2 * sim.n, d |-> sim.d]
    ELSE [n |-> 1, d |-> 1]

Times(x, y) == [n |-> x.n * y.n, d |-> x.d * y.d]

\* cmpChunk(a, b) < 0: a sorts before b, the higher FinalScore first.
cmpChunk(a, b) == a.FinalScore.n * b.FinalScore.d > b.FinalScore.n * a.FinalScore.d

\* slices.SortFunc on a short slice: insertion sort, equal elements keep
\* their order.
RECURSIVE InsertChunk(_, _)
InsertChunk(sorted, c) ==
    IF sorted = <<>> THEN <<c>>
    ELSE LET last == sorted[Len(sorted)] IN
         IF cmpChunk(c, last)
         THEN Append(InsertChunk(SubSeq(sorted, 1, Len(sorted) - 1), c), last)
         ELSE Append(sorted, c)

RECURSIVE SortFunc(_)
SortFunc(q) ==
    IF q = <<>> THEN <<>>
    ELSE InsertChunk(SortFunc(SubSeq(q, 1, Len(q) - 1)), q[Len(q)])

\* A variant of the loop test that ignores the word count.
LoopContinues_NoBudget(remainingChunks, currentWordCount, targetWordCount) ==
    remainingChunks # <<>>

\* for len(remainingChunks) > 0 && currentWordCount < targetWordCount
LoopContinues(remainingChunks, currentWordCount, targetWordCount) ==
    remainingChunks # <<>> /\ currentWordCount < targetWordCount

\* The inner loop: the remaining chunks after selected was taken, each
\* FinalScore multiplied by its penalty.
Penalised(selected, rest) ==
    [i \in 1..Len(rest) |->
        [rest[i] EXCEPT !.FinalScore =
            Times(@, Penalty(jaccardSimilarity(selected.UniqueTokens,
                                               rest[i].UniqueTokens)))]]

\* The selection loop of ReduceContent.
RECURSIVE SelectLoop(_, _, _, _)
SelectLoop(remainingChunks, selectedChunks, currentWordCount, targetWordCount) ==
    IF ~LoopContinues(remainingChunks, currentWordCount, targetWordCount)
    THEN selectedChunks
    ELSE LET selected == Head(remainingChunks)
             rest == Tail(remainingChunks)
             penalised == Penalised(selected, rest)
         IN SelectLoop(SortFunc(penalised), Append(selectedChunks, selected),
                       currentWordCount + selected.WordCount, targetWordCount)

\* A variant that puts the selected chunks in descending Id order.
RECURSIVE ById_Descending(_, _)
ById_Descending(chunks, ids) ==
    IF chunks = <<>> THEN <<>>
    ELSE ById_Descending(Tail(chunks), ids)
             \o (IF Head(chunks).Id \in ids THEN <<Head(chunks)>> ELSE <<>>)

\* slices.SortFunc(selectedChunks, by Id): the selected chunks in Id order.
RECURSIVE ById(_, _)
ById(chunks, ids) ==
    IF chunks = <<>> THEN <<>>
    ELSE (IF Head(chunks).Id \in ids THEN <<Head(chunks)>> ELSE <<>>) \o ById(Tail(chunks), ids)

\* A variant of the first selection that starts from the best-scored chunk.
FirstSelected_Best(chunks) == Head(SortFunc(chunks))

\* selectedChunks = append(selectedChunks, chunks[0])
FirstSelected(chunks) == chunks[1]

\* A variant of the reassembly that keeps the overlapping words.
ChunkTail_Whole(words, overlap) == words

\* chunk.Words[overlap:]
ChunkTail(words, overlap) == SubSeq(words, overlap + 1, Len(words))

\* ReduceContent, with the FinalScore of chunk i given as scores[i]
\* (tfScores, calculateGraphScores and calculateFinalScore compute it in
\* floating point). The text is its lines, a line is its words.
ReduceContent(content, cfg, scores) ==
    LET wordsArray == Fields(CleanUp(content))
        created == createChunks(wordsArray, cfg.ChunkSize, cfg.Overlap)
    IN IF created.status = "panic" \/ created.chunks = <<>>
       THEN \* createChunks panicked, or chunks[0] is out of range
            [status |-> "panic", chunks |-> created.chunks, selected |-> <<>>, text |-> <<>>]
       ELSE LET chunks == [i \in 1..Len(created.chunks) |->
                              [Id |-> created.chunks[i].Id,
                               WordCount |-> created.chunks[i].WordCount,
                               UniqueTokens |-> created.chunks[i].UniqueTokens,
                               FinalScore |-> [n |-> scores[i], d |-> 1]]]
                first == FirstSelected(chunks)
                remainingChunks == SortFunc(SelectSeq(chunks, LAMBDA c : c.Id # first.Id))
                picked == SelectLoop(remainingChunks, <<first>>, first.WordCount,
                                     cfg.TargetWords)
                ids == {picked[i].Id : i \in 1..Len(picked)}
                selectedChunks == ById(created.chunks, ids)
                reducedContent ==
                    [i \in 1..Len(selectedChunks) |->
                        IF i = 1 THEN selectedChunks[1].Words
                        ELSE ChunkTail(selectedChunks[i].Words, cfg.Overlap)]
            IN [status |-> "ok", chunks |-> created.chunks,
                selected |-> [i \in 1..Len(picked) |-> picked[i].Id],
                text |-> reducedContent]

ScoreChoices(content, cfg) ==
    LET n == ChunkCount(Len(Fields(CleanUp(content))), cfg.ChunkSize, cfg.Overlap)
    IN [1..n -> ScoreLevels]

\* A direct call of ReduceContent on the document.
Reduce ==
    /\ redIn # NoDoc
    /\ redOut = NoOut
    /\ \E scores \in ScoreChoices(redIn.words, redIn.cfg) :
         redOut' = ReduceContent(redIn.words, redIn.cfg, scores)
                       @@ [call |-> "ReduceContent", reduced |-> TRUE]
    /\ UNCHANGED <<redIn, poolVars, workerVars, procVars, callVars, panicCause, hsVars,
                   auxVars>>

\* Handler.Process up to llmContent: the content is reduced when its
\* estimated tokens exceed the threshold and handed on as it is otherwise.
Process ==
    /\ redIn # NoDoc
    /\ redOut = NoOut
    /\ LET estimatedTokens == EstimateTokens(redIn.words)
           shouldReduce == ShouldReduceContent(estimatedTokens, redIn.cfg.ThresholdTokens)
       IN IF shouldReduce
          THEN \E scores \in ScoreChoices(redIn.words, redIn.cfg) :
                  redOut' = ReduceContent(redIn.words, redIn.cfg, scores)
                                @@ [call |-> "Process", reduced |-> TRUE]
          ELSE redOut' = [status |-> "ok", call |-> "Process", reduced |-> FALSE,
                          text |-> <<redIn.words>>]
    /\ UNCHANGED <<redIn, poolVars, workerVars, procVars, callVars, panicCause, hsVars,
                   auxVars>>

ReduceInit ==
    /\ PoolInit
    /\ redIn \in ReduceInputs
    /\ redOut = NoOut
    /\ SimIdle
    /\ CacheInit
    /\ LateIdle

ReduceNext == Reduce \/ Process

ReduceSpec == ReduceInit /\ [][ReduceNext]_vars

\* ------------------------------------------------- term-frequency scores
\* A float64 is written as a fraction n/d, or as NaN or +Inf.
NaN == [kind |-> "nan"]
Inf == [kind |-> "inf"]
Num(n, d) == [kind |-> "num", n |-> n, d |-> d]

RECURSIVE GCD(_, _)
GCD(x, y) == IF y = 0 THEN x ELSE GCD(y, x % y)

Reduced2(n, d) == LET g == GCD(n, d) IN IF g = 0 THEN Num(0, 1) ELSE Num(n \div g, d \div g)

\* x + y and x / y on non-negative float64 values.
FAdd(x, y) ==
    IF x.kind = "nan" \/ y.kind = "nan" THEN NaN
    ELSE IF x.kind = "inf" \/ y.kind = "inf" THEN Inf
    ELSE LET l == (x.d \div GCD(x.d, y.d)) * y.d
         IN Reduced2(x.n * (l \div x.d) + y.n * (l \div y.d), l)

FDiv(x, y) ==
    IF x.kind = "nan" \/ y.kind = "nan" THEN NaN
    ELSE IF x.kind = "inf" THEN (IF y.kind = "inf" THEN NaN ELSE Inf)
    ELSE IF y.kind = "inf" THEN Num(0, 1)
    ELSE IF y.n = 0 THEN (IF x.n = 0 THEN NaN ELSE Inf)
    ELSE LET g1 == GCD(x.n, y.n)
             g2 == GCD(x.d, y.d)
         IN IF x.n = 0 THEN Num(0, 1)
            ELSE Reduced2((x.n \div g1) * (y.d \div g2), (x.d \div g2) * (y.n \div g1))

\* math.Log1p(g) for a frequency g >= 1, in thousandths, rounded.
Log1pTable == <<693, 1099, 1386, 1609, 1792, 1946, 2079, 2197, 2303, 2398, 2485, 2565,
                2639, 2708, 2773, 2833>>

Count(q, x) == Cardinality({i \in 1..Len(q) : q[i] = x})

RECURSIVE SumOver(_, _)
SumOver(f, n) == IF n = 0 THEN Num(0, 1) ELSE FAdd(SumOver(f, n - 1), f[n])

\* chunk.TFScore = totalFreq / float64(len(chunk.Tokens))
TFScoreOf(chunk, globalTokenFreq) ==
    LET uniq == chunk.UniqueTokens
        terms == [k \in 1..Len(uniq) |->
                     Num(Log1pTable[globalTokenFreq[uniq[k]]] * Count(chunk.Tokens, uniq[k]),
                         1000)]
        totalFreq == SumOver(terms, Len(uniq))
    IN FDiv(totalFreq, Num(Len(chunk.Tokens), 1))

RECURSIVE TotalCount(_, _)
TotalCount(chunks, x) ==
    IF chunks = <<>> THEN 0 ELSE Count(Head(chunks).Tokens, x) + TotalCount(Tail(chunks), x)

\* tfScores: TFScore and NormalizedTFScore of every chunk.
tfScores(chunks) ==
    LET all == UNION {Range(chunks[i].Tokens) : i \in 1..Len(chunks)}
        globalTokenFreq == [x \in all |-> TotalCount(chunks, x)]
        scores == [i \in 1..Len(chunks) |-> TFScoreOf(chunks[i], globalTokenFreq)]
        sumTF == SumOver(scores, Len(chunks))
    IN [i \in 1..Len(chunks) |->
           [TFScore |-> scores[i], NormalizedTFScore |-> FDiv(scores[i], sumTF)]]

\* Documents for the scoring step: "-" is a word without any token.
ScoreVocabulary == {<<"a">>, <<"b", "-", "a">>, <<"-">>}
ScoreInputs ==
    {[words |-> d, cfg |-> c] :
        d \in SeqsUpTo(ScoreVocabulary, MaxWords) \ {<<>>},
        c \in {k \in Configs : /\ k.Overlap < k.ChunkSize
                               /\ k.TargetWords = 0
                               /\ \A th \in ThresholdChoices : k.ThresholdTokens <= th}}

\* ReduceContent up to tfScores (lines 20-25).
Score ==
    /\ redIn # NoDoc
    /\ redOut = NoOut
    /\ LET created == createChunks(Fields(CleanUp(redIn.words)), redIn.cfg.ChunkSize,
                                   redIn.cfg.Overlap)
       IN redOut' = [status |-> created.status, call |-> "tfScores", reduced |-> FALSE,
                     chunks |-> created.chunks, tf |-> tfScores(created.chunks)]
    /\ UNCHANGED <<redIn, poolVars, workerVars, procVars, callVars, panicCause, hsVars,
                   auxVars>>

ScoreInit ==
    /\ PoolInit
    /\ redIn \in ScoreInputs
    /\ redOut = NoOut
    /\ SimIdle
    /\ CacheInit
    /\ LateIdle

ScoreNext == Score

ScoreSpec == ScoreInit /\ [][ScoreNext]_vars

\* ------------------------------------------- similarity and the penalty
MaxTokens == 2
TokenNames == {"a", "b", "c"}
\* DiversityThreshold and MinPenalty as fractions: the defaults and one
\* other value each.
DiversityChoices == {[n |-> 15, d |-> 100], [n |-> 1, d |-> 2]}
MinPenaltyChoices == {[n |-> 1, d |-> 10], [n |-> 1, d |-> 2]}

SimInputs ==
    {[a |-> a, b |-> b, cfg |-> [DiversityThreshold |-> dt, MinPenalty |-> mp]] :
        a \in SeqsUpTo(TokenNames, MaxTokens), b \in SeqsUpTo(TokenNames, MaxTokens),
        dt \in DiversityChoices, mp \in MinPenaltyChoices}

\* jaccardSimilarity on the two lists, in both orders.
Similarity ==
    /\ simIn # NoSim
    /\ simOut = NoOut
    /\ simOut' = [status |-> "ok", call |-> "jaccardSimilarity",
                  ab |-> jaccardSimilarity(simIn.a, simIn.b),
                  ba |-> jaccardSimilarity(simIn.b, simIn.a)]
    /\ UNCHANGED <<simIn, poolVars, workerVars, procVars, callVars, panicCause, hsVars,
                   redVars, cacheVars, lateVars>>

\* The selection loop's step on a remaining chunk with tokens b after the
\* chunk with tokens a was selected: the factor its FinalScore is
\* multiplied by.
Penalise ==
    /\ simIn # NoSim
    /\ simOut = NoOut
    /\ simOut' = [status |-> "ok", call |-> "penalty",
                  similarity |-> jaccardSimilarity(simIn.a, simIn.b),
                  factor |-> Penalty(jaccardSimilarity(simIn.a, simIn.b))]
    /\ UNCHANGED <<simIn, poolVars, workerVars, procVars, callVars, panicCause, hsVars,
                   redVars, cacheVars, lateVars>>

SimInit ==
    /\ PoolInit
    /\ redIn = NoDoc
    /\ redOut = NoOut
    /\ simIn \in SimInputs
    /\ simOut = NoOut
    /\ CacheInit
    /\ LateIdle

SimNext == Similarity \/ Penalise

SimSpec == SimInit /\ [][SimNext]_vars

\* --------------------------------------------------------------- TagsCache
MaxKeys == 2
MaxCalls == 3
CacheNames == {"x", "y"}
KeyLists == SeqsUpTo(CacheNames, MaxKeys)
\* AddNewTags is given one new CacheItem (hits 0) at a time.
TagLists == {<<[value |-> n, hits |-> 0]>> : n \in CacheNames}

nonCacheVars == <<poolVars, workerVars, procVars, callVars, panicCause, hsVars, redVars,
                  simVars, lateVars>>

Names == DOMAIN items
CacheUp == cacheFault = "none"
CanCall(p) == CacheUp /\ cop[p] = NoOp /\ ncalls < MaxCalls

\* The (hits, misses) pairs a running HitRate call has lived through.
Seen(newHits, newMisses) ==
    [q \in Callers |->
        IF cop[q].op = "HitRate"
        THEN [cop[q] EXCEPT !.seen = @ \cup {<<newHits, newMisses>>}]
        ELSE cop[q]]

\* n/d is hits/(hits+misses) for one of the (hits, misses) pairs.
IsRateOf(n, d, pairs) ==
    \E hm \in pairs : n * (hm[1] + hm[2]) = hm[1] * d

\* A variant of c.mu.Lock() that never waits.
Lockable_Always == TRUE

\* c.mu.Lock() returns: no caller holds the lock.
Lockable == mu = 0

\* A variant of the miss branch that starts a new map with the key.
StoreMiss_Wipe(key) == key :> [value |-> key, hits |-> 0]

\* A variant of the miss branch that does not store the key.
StoreMiss_Forget(key) == items

\* c.items[key] = CacheItem{value: key, hits: 0}
StoreMiss(key) == (key :> [value |-> key, hits |-> 0]) @@ items

\* A variant of the hit branch that counts the hit twice on the entry.
StoreHit_Twice(key) == [items EXCEPT ![key].hits = @ + 2]

\* A variant of the hit branch that stores a fresh item.
StoreHit_Reset(key) == [items EXCEPT ![key] = [value |-> key, hits |-> 0]]

\* item := c.items[key]; item.hits += 1; c.items[key] = item
StoreHit(key) == [items EXCEPT ![key].hits = @ + 1]

\* GetMissingAndAdd: c.mu.Lock() succeeded.
GetMissingAndAdd_Lock(p) ==
    /\ CanCall(p)
    /\ Lockable
    /\ \E keys \in KeyLists :
         /\ cop' = [cop EXCEPT ![p] = [op |-> "GetMissingAndAdd", keys |-> keys, i |-> 1,
                                       missing |-> <<>>, hits0 |-> hits, names0 |-> Names,
                                       items0 |-> items,
                                       repeat |-> /\ cret[p].op = "GetMissingAndAdd"
                                                  /\ cret[p].keys = keys]]
         /\ passed' = passed + Len(keys)
    /\ mu' = p
    /\ cret' = [cret EXCEPT ![p] = NoOp]
    /\ ncalls' = ncalls + 1
    /\ UNCHANGED <<items, hits, misses, lookedUp, tagsAdded, readDuringWrite, cacheFault,
                   nonCacheVars>>

\* GetMissingAndAdd: one iteration of the loop over keys.
GetMissingAndAdd_Key(p) ==
    /\ CacheUp
    /\ cop[p].op = "GetMissingAndAdd"
    /\ cop[p].i <= Len(cop[p].keys)
    /\ LET key == cop[p].keys[cop[p].i]
           miss == key \notin Names
           newHits == IF miss THEN hits ELSE hits + 1
           newMisses == IF miss THEN misses + 1 ELSE misses
       IN /\ items' = IF miss THEN StoreMiss(key) ELSE StoreHit(key)
          /\ hits' = newHits
          /\ misses' = newMisses
          /\ lookedUp' = lookedUp \cup {key}
          /\ cop' = [Seen(newHits, newMisses) EXCEPT
                        ![p] = [cop[p] EXCEPT !.i = @ + 1,
                                              !.missing = IF miss THEN Append(@, key) ELSE @]]
    /\ UNCHANGED <<mu, cret, ncalls, passed, tagsAdded, readDuringWrite, cacheFault,
                   nonCacheVars>>

\* GetMissingAndAdd: return missing, the deferred c.mu.Unlock() runs.
GetMissingAndAdd_Return(p) ==
    /\ CacheUp
    /\ cop[p].op = "GetMissingAndAdd"
    /\ cop[p].i > Len(cop[p].keys)
    /\ cret' = [cret EXCEPT ![p] = [op |-> "GetMissingAndAdd", keys |-> cop[p].keys,
                                    missing |-> cop[p].missing,
                                    repeat |-> cop[p].repeat,
                                    present0 |-> cop[p].names0 \cap Range(cop[p].keys),
                                    allPresent |-> Range(cop[p].keys) \subseteq Names,
                                    hitsAdded |-> hits - cop[p].hits0,
                                    namesAdded |-> Names \ cop[p].names0,
                                    bumps |-> [k \in Range(cop[p].keys) \cap Names |->
                                                 items[k].hits -
                                                   (IF k \in cop[p].names0
                                                    THEN cop[p].items0[k].hits ELSE 0)]]]
    /\ cop' = [cop EXCEPT ![p] = NoOp]
    /\ mu' = 0
    /\ UNCHANGED <<items, hits, misses, ncalls, lookedUp, passed, tagsAdded, readDuringWrite,
                   cacheFault, nonCacheVars>>

\* AddNewTags: c.mu.Lock() succeeded.
AddNewTags_Lock(p) ==
    /\ CanCall(p)
    /\ Lockable
    /\ \E tags \in TagLists :
         cop' = [cop EXCEPT ![p] = [op |-> "AddNewTags", tags |-> tags, i |-> 1]]
    /\ mu' = p
    /\ cret' = [cret EXCEPT ![p] = NoOp]
    /\ ncalls' = ncalls + 1
    /\ UNCHANGED <<items, hits, misses, lookedUp, passed, tagsAdded, readDuringWrite, cacheFault,
                   nonCacheVars>>

\* AddNewTags: c.items[item.value] = item.
AddNewTags_Store(p) ==
    /\ CacheUp
    /\ cop[p].op = "AddNewTags"
    /\ cop[p].i <= Len(cop[p].tags)
    /\ LET item == cop[p].tags[cop[p].i]
       IN /\ items' = (item.value :> item) @@ items
          /\ tagsAdded' = tagsAdded \cup {item.value}
    /\ cop' = [cop EXCEPT ![p].i = @ + 1]
    /\ UNCHANGED <<hits, misses, mu, cret, ncalls, lookedUp, passed, readDuringWrite, cacheFault,
                   nonCacheVars>>

\* AddNewTags: the deferred c.mu.Unlock() runs.
AddNewTags_Return(p) ==
    /\ CacheUp
    /\ cop[p].op = "AddNewTags"
    /\ cop[p].i > Len(cop[p].tags)
    /\ cret' = [cret EXCEPT ![p] = [op |-> "AddNewTags"]]
    /\ cop' = [cop EXCEPT ![p] = NoOp]
    /\ mu' = 0
    /\ UNCHANGED <<items, hits, misses, ncalls, lookedUp, passed, tagsAdded, readDuringWrite,
                   cacheFault, nonCacheVars>>

\* Size: len(c.items), read without the lock.
Size(p) ==
    /\ CanCall(p)
    /\ cret' = [cret EXCEPT ![p] = [op |-> "Size", value |-> Cardinality(Names),
                                    locked |-> FALSE]]
    /\ readDuringWrite' = (readDuringWrite \/ mu # 0)
    /\ ncalls' = ncalls + 1
    /\ UNCHANGED <<items, hits, misses, mu, cop, lookedUp, passed, tagsAdded, cacheFault,
                   nonCacheVars>>

\* GetCachedTags: the map itself is handed out, without the lock.
GetCachedTags(p) ==
    /\ CanCall(p)
    /\ cret' = [cret EXCEPT ![p] = [op |-> "GetCachedTags", value |-> items,
                                    locked |-> FALSE]]
    /\ ncalls' = ncalls + 1
    /\ UNCHANGED <<items, hits, misses, mu, cop, lookedUp, passed, tagsAdded, readDuringWrite,
                   cacheFault, nonCacheVars>>

\* GetCachedTagsValues: the map is iterated without the lock; next to a
\* writer the runtime may stop the program ("concurrent map iteration and
\* map write").
GetCachedTagsValues(p) ==
    /\ CanCall(p)
    /\ \E outcome \in (IF mu # 0 THEN {"value", "fatal"} ELSE {"value"}) :
         /\ cret' = [cret EXCEPT ![p] = [op |-> "GetCachedTagsValues", value |-> Names,
                                         locked |-> FALSE]]
         /\ cacheFault' = IF outcome = "fatal" THEN "concurrent map iteration and map write"
                          ELSE cacheFault
    /\ readDuringWrite' = (readDuringWrite \/ mu # 0)
    /\ ncalls' = ncalls + 1
    /\ UNCHANGED <<items, hits, misses, mu, cop, lookedUp, passed, tagsAdded, nonCacheVars>>

\* HitRate: if c.hits+c.misses > 0, read without the lock.
HitRate_Check(p) ==
    /\ CanCall(p)
    /\ IF hits + misses > 0
       THEN /\ cop' = [cop EXCEPT ![p] = [op |-> "HitRate", pc |-> "num", num |-> 0,
                                          seen |-> {<<hits, misses>>}]]
            /\ cret' = [cret EXCEPT ![p] = NoOp]
       ELSE /\ cret' = [cret EXCEPT ![p] = [op |-> "HitRate", n |-> 0, d |-> 1,
                                            exact |-> TRUE, locked |-> FALSE]]
            /\ cop' = cop
    /\ readDuringWrite' = (readDuringWrite \/ mu # 0)
    /\ ncalls' = ncalls + 1
    /\ UNCHANGED <<items, hits, misses, mu, lookedUp, passed, tagsAdded, cacheFault, nonCacheVars>>

\* HitRate: float64(c.hits), the dividend.
HitRate_Num(p) ==
    /\ CacheUp
    /\ cop[p].op = "HitRate"
    /\ cop[p].pc = "num"
    /\ cop' = [cop EXCEPT ![p].pc = "den", ![p].num = hits]
    /\ readDuringWrite' = (readDuringWrite \/ mu # 0)
    /\ UNCHANGED <<items, hits, misses, mu, cret, ncalls, lookedUp, passed, tagsAdded, cacheFault,
                   nonCacheVars>>

\* HitRate: float64(c.hits+c.misses), the divisor, and the return.
HitRate_Den(p) ==
    /\ CacheUp
    /\ cop[p].op = "HitRate"
    /\ cop[p].pc = "den"
    /\ cret' = [cret EXCEPT ![p] = [op |-> "HitRate", n |-> cop[p].num, d |-> hits + misses,
                                    exact |-> IsRateOf(cop[p].num, hits + misses,
                                                       cop[p].seen),
                                    locked |-> FALSE]]
    /\ cop' = [cop EXCEPT ![p] = NoOp]
    /\ readDuringWrite' = (readDuringWrite \/ mu # 0)
    /\ UNCHANGED <<items, hits, misses, mu, ncalls, lookedUp, passed, tagsAdded, cacheFault,
                   nonCacheVars>>

CacheNext ==
    \/ \E p \in Callers : GetMissingAndAdd_Lock(p)
    \/ \E p \in Callers : GetMissingAndAdd_Key(p)
    \/ \E p \in Callers : GetMissingAndAdd_Return(p)
    \/ \E p \in Callers : AddNewTags_Lock(p)
    \/ \E p \in Callers : AddNewTags_Store(p)
    \/ \E p \in Callers : AddNewTags_Return(p)
    \/ \E p \in Callers : Size(p)
    \/ \E p \in Callers : GetCachedTags(p)
    \/ \E p \in Callers : GetCachedTagsValues(p)
    \/ \E p \in Callers : HitRate_Check(p)
    \/ \E p \in Callers : HitRate_Num(p)
    \/ \E p \in Callers : HitRate_Den(p)

CacheSpec == Init /\ [][CacheNext]_vars

\* ------------------------------------------- POST /process/untagged
MaxDocs == 3

\* The contents GetDocumentsWithoutTags may bring: no word, two words,
\* three words.
BatchContents == {<<>>, <<<<"a">>, <<"b", "-", "a">>>>, <<<<"a">>, <<"a">>, <<"a">>>>}

\* h.cfg.Reduction of the running service.
BatchCfg == [ChunkSize |-> 3, Overlap |-> 0, TargetWords |-> 2, ThresholdTokens |-> 1]

\* The fetched lists: documents with distinct ids, in the order Paperless
\* returned them.
DocumentLists ==
    UNION {{[i \in 1..n |-> [ID |-> i, Content |-> cs[i]]] : cs \in [1..n -> BatchContents]} :
              n \in 0..MaxDocs}

\* Handler.Process up to llmContent, as the handler sees it: "panic" when
\* ReduceContent panics, else "ok".
ProcessReduction(content) ==
    LET estimatedTokens == EstimateTokens(content)
        shouldReduce == ShouldReduceContent(estimatedTokens, BatchCfg.ThresholdTokens)
    IN IF ~shouldReduce THEN "ok"
       ELSE LET scores == CHOOSE sc \in ScoreChoices(content, BatchCfg) : TRUE
            IN ReduceContent(content, BatchCfg, scores).status

\* What Process does after llmContent: every call to Paperless, the matcher
\* and the LLM returns nil, or one of them returns an error.
ProcessOutcomes == {"nil", "err"}

\* ValidateMethod passed and GetDocumentsWithoutTags returned documents.
Fetch_Ok ==
    /\ batch = NoBatch
    /\ \E documents \in DocumentLists :
         batch' = [pc |-> "loop", documents |-> documents, i |-> 1,
                   processed |-> 0, failed |-> 0, failedIDs |-> <<>>,
                   attempted |-> <<>>, errored |-> <<>>]
    /\ UNCHANGED <<sizing, loop, poolVars, workerVars, procVars, callVars, panicCause, hsVars,
                   redVars, simVars, cacheVars>>

\* GetDocumentsWithoutTags returned an error: HandleError, return.
Fetch_Err ==
    /\ batch = NoBatch
    /\ batch' = [pc |-> "fetcherr"]
    /\ UNCHANGED <<sizing, loop, poolVars, workerVars, procVars, callVars, panicCause, hsVars,
                   redVars, simVars, cacheVars>>

\* The counters after Process returned for the document.
AfterProcess(b, document, outcome) ==
    IF outcome = "err"
    THEN [b EXCEPT !.i = @ + 1, !.failed = @ + 1,
                   !.failedIDs = Append(@, document.ID),
                   !.attempted = Append(@, document.ID),
                   !.errored = Append(@, document.ID)]
    ELSE [b EXCEPT !.i = @ + 1, !.processed = @ + 1,
                   !.attempted = Append(@, document.ID)]

\* One iteration of for _, document := range documents.
ProcessDocument ==
    /\ batch.pc = "loop"
    /\ batch.i <= Len(batch.documents)
    /\ LET document == batch.documents[batch.i]
       IN IF ProcessReduction(document.Content) = "panic"
          THEN \* the panic unwinds the handler: net/http drops the request
               batch' = [batch EXCEPT !.pc = "panicked",
                                      !.attempted = Append(@, document.ID)]
          ELSE \E outcome \in ProcessOutcomes :
                  batch' = AfterProcess(batch, document, outcome)
    /\ UNCHANGED <<sizing, loop, poolVars, workerVars, procVars, callVars, panicCause, hsVars,
                   redVars, simVars, cacheVars>>

\* The response map and SuccessResponse.
Respond ==
    /\ batch.pc = "loop"
    /\ batch.i > Len(batch.documents)
    /\ LET response ==
               [status |-> "completed", total |-> Len(batch.documents),
                processed |-> batch.processed, failed |-> batch.failed]
               @@ (IF batch.failed > 0
                   THEN [failed_document_ids |-> batch.failedIDs]
                   ELSE <<>>)
       IN batch' = [response |-> response] @@ [batch EXCEPT !.pc = "responded"]
    /\ UNCHANGED <<sizing, loop, poolVars, workerVars, procVars, callVars, panicCause, hsVars,
                   redVars, simVars, cacheVars>>

BatchNext == Fetch_Ok \/ Fetch_Err \/ ProcessDocument \/ Respond

BatchSpec == Init /\ [][BatchNext]_vars

\* --------------------------------------------- default worker count
MaxCPU == 7
modelMemoryMB == 200
defaultMemoryMB == 4096
systemReservedMB == 2048
fallbackUsableMB == 2048
workerCap == 6
kbPerMB == 1024

min(x, y) == IF x <= y THEN x ELSE y
max(x, y) == IF x >= y THEN x ELSE y

\* MemTotal of /proc/meminfo in kB: values on both sides of the reserved
\* 2048 MB and of the multiples of modelMemoryMB above it, each with a
\* remainder that kb / 1024 drops.
MemTotalMB == {0, 2047, 2048, 2247, 2248, 2648, 3248, 4096}
MemTotalKB == {mb * kbPerMB + r : mb \in MemTotalMB, r \in {0, kbPerMB - 1}}

\* What reading /proc/meminfo gives: a MemTotal line, or nothing usable
\* (no file, no line, no number).
MemInfos == {[kind |-> "kb", kb |-> k] : k \in MemTotalKB} \cup {[kind |-> "none"]}

Machines == {1, 2}

\* Two machines with the same number of CPU cores.
SizingInputs ==
    {[cpuCores |-> c, meminfo |-> <<m1, m2>>, count |-> <<0, 0>>] :
        c \in 1..MaxCPU, m1 \in MemInfos, m2 \in MemInfos}

availableMemoryMB(meminfo) ==
    IF meminfo.kind = "kb" THEN GoDiv(meminfo.kb, kbPerMB) ELSE defaultMemoryMB

usableMemoryMB(available) ==
    IF available - systemReservedMB < 0 THEN fallbackUsableMB
    ELSE available - systemReservedMB

workersByCPU(cpuCores) == min(cpuCores, workerCap)

workersByMemory(usable) == max(min(GoDiv(usable, modelMemoryMB), workerCap), 1)

\* A variant that takes the larger of the two limits.
workerCount_Larger(byMemory, byCPU) == min(max(max(byMemory, byCPU), 1), workerCap)

workerCount(byMemory, byCPU) == min(max(min(byMemory, byCPU), 1), workerCap)

calculateDefaultWorkerCount(cpuCores, meminfo) ==
    workerCount(workersByMemory(usableMemoryMB(availableMemoryMB(meminfo))),
                workersByCPU(cpuCores))

\* Machine m computes its default worker count.
DefaultWorkerCount(m) ==
    /\ sizing # NoSizing
    /\ sizing.count[m] = 0
    /\ sizing' = [sizing EXCEPT !.count[m] =
                      calculateDefaultWorkerCount(sizing.cpuCores, sizing.meminfo[m])]
    /\ UNCHANGED <<batch, loop, poolVars, workerVars, procVars, callVars, panicCause, hsVars,
                   redVars, simVars, cacheVars>>

SizingInit ==
    /\ PoolInit
    /\ redIn = NoDoc
    /\ redOut = NoOut
    /\ SimIdle
    /\ CacheInit
    /\ batch = NoBatch
    /\ loop = NoLoop
    /\ sizing \in SizingInputs

SizingNext == \E m \in Machines : DefaultWorkerCount(m)

SizingSpec == SizingInit /\ [][SizingNext]_vars

\* ------------------------------------ the selection loop, step by step
MaxRemaining == 3

LoopTokenLists == {<<"a", "b">>, <<"a", "c">>, <<"d">>}
LoopScores == {1, 2}
LoopTargets == {4, 8}
LoopWordCount == 2

\* The state at the loop's head (reducer.go 28-38): chunks[0] selected, the
\* other chunks sorted by cmpChunk, and the configuration.
LoopInputs ==
    UNION {{[pc |-> "loop",
             cfg |-> [DiversityThreshold |-> dt, MinPenalty |-> mp],
             selectedChunks |-> <<[Id |-> 0, WordCount |-> LoopWordCount,
                                   UniqueTokens |-> <<"a">>, FinalScore |-> [n |-> 1, d |-> 1]]>>,
             remainingChunks |->
                 SortFunc([i \in 1..n |-> [Id |-> i, WordCount |-> LoopWordCount,
                                           UniqueTokens |-> tk[i],
                                           FinalScore |-> [n |-> sc[i], d |-> 1]]]),
             currentWordCount |-> LoopWordCount,
             targetWordCount |-> t] :
               tk \in [1..n -> LoopTokenLists], sc \in [1..n -> LoopScores],
               dt \in DiversityChoices, mp \in MinPenaltyChoices, t \in LoopTargets} :
           n \in 1..MaxRemaining}

\* slices.SortFunc(selectedChunks, by Id); the ids are distinct.
RECURSIVE OrderById(_)
OrderById(q) ==
    IF q = <<>> THEN <<>>
    ELSE LET k == CHOOSE i \in 1..Len(q) : \A j \in 1..Len(q) : q[i].Id <= q[j].Id
         IN <<q[k]>> \o OrderById(SubSeq(q, 1, k - 1) \o SubSeq(q, k + 1, Len(q)))

\* One iteration of the loop (reducer.go 40-62).
SelectIteration ==
    /\ loop # NoLoop
    /\ loop.pc = "loop"
    /\ LoopContinues(loop.remainingChunks, loop.currentWordCount, loop.targetWordCount)
    /\ LET selected == Head(loop.remainingChunks)
           rest == Tail(loop.remainingChunks)
       IN loop' = [loop EXCEPT !.selectedChunks = Append(@, selected),
                               !.currentWordCount = @ + selected.WordCount,
                               !.remainingChunks = SortFunc(Penalised(selected, rest))]
    /\ UNCHANGED <<batch, sizing, poolVars, workerVars, procVars, callVars, panicCause,
                   hsVars, redVars, simVars, cacheVars>>

\* The loop test fails: the selected chunks are put in Id order.
SelectEnd ==
    /\ loop # NoLoop
    /\ loop.pc = "loop"
    /\ ~LoopContinues(loop.remainingChunks, loop.currentWordCount, loop.targetWordCount)
    /\ loop' = [loop EXCEPT !.pc = "done", !.selectedChunks = OrderById(@)]
    /\ UNCHANGED <<batch, sizing, poolVars, workerVars, procVars, callVars, panicCause,
                   hsVars, redVars, simVars, cacheVars>>

LoopInit ==
    /\ PoolInit
    /\ redIn = NoDoc
    /\ redOut = NoOut
    /\ SimIdle
    /\ CacheInit
    /\ batch = NoBatch
    /\ sizing = NoSizing
    /\ loop \in LoopInputs

LoopNext == SelectIteration \/ SelectEnd

LoopSpec == LoopInit /\ [][LoopNext]_vars

TypeOK ==
    /\ initResult \in {"none", "ok", "err"}
    /\ Len(taskQueue) \in 0..(MaxTasks)
    /\ wg \in 0..WorkerCount
    /\ \A w \in Workers : cur[w] \in Tasks \cup {NoTask}

\* ==================================================================== C1
\* C1: no caller deadlocks: every task submitted through GetTagSuggestions
\* is eventually resolved, that is, its caller returns a value or an error.
\* (Stated leniently: a run in which the pool is closed or the Go process
\* crashes is not held against the claim.)
C1_EveryTaskResolves ==
    \A t \in Tasks :
        Pending(t) ~> (tstate[t] \in {"done_ok", "done_err"} \/ queueClosed \/ ~Running)

\* ==================================================================== C2
\* C2: every task is dequeued by at most one worker and its Result channel
\* receives at most one TaskResult over the whole execution.
C2_ResolvedAtMostOnce ==
    \A t \in Tasks : Len(dequeuedBy[t]) <= 1 /\ Len(results[t]) <= 1

\* A task that a worker took from the queue, answered with an error field
\* set, and whose caller has returned.
C2_Witness ==
    \E t \in Tasks, w \in Workers :
        /\ dequeuedBy[t] = <<w>>
        /\ exitReason[w] = "pyerror"
        /\ results[t] = <<"pyerror">>
        /\ tstate[t] = "done_err"

\* ==================================================================== C3
\* C3: a worker that reads a well-formed response whose error field is set
\* resolves the task with that error and stays in the pool (back to Ready):
\* no worker ever leaves runWorker because of such a response.
C3_WorkerSurvivesPythonError ==
    \A w \in Workers : exitReason[w] # "pyerror"

\* ==================================================================== C4
\* C4: Initialize returns success only after every one of the WorkerCount
\* workers has completed the startup handshake.
C4_InitializeWaitsForWorkers ==
    initResult = "ok" => \A w \in Workers : handshook[w]

\* ==================================================================== C5
\* C5: whatever line a worker process produces, GetTagSuggestions and
\* HealthCheck end by returning a value or an error; nothing panics.
\* (Stated leniently: the panic of a send on the queue after Close is not
\* held against the claim, only one raised while a response is handled.)
C5_NoUncaughtFault ==
    panicCause # "nil_deref"

\* ==================================================================== C6
IOFailures == {"writefail", "eof", "malformed"}
Busy(w) == wstate[w] \in {"BusyWrite", "BusyRead"}
Spawned(w) == wstate[w] \notin {"Unspawned", "Closed"}
LiveCount == Cardinality({w \in Workers : Spawned(w)})
Handled(w) == {t \in Tasks : \E i \in 1..Len(dequeuedBy[t]) : dequeuedBy[t][i] = w}

C7_RequestResponseAlternate ==
    [][ \A w \in Workers :
          /\ reqWritten'[w] - respRead'[w] \in {0, 1}
          /\ reqWritten'[w] # reqWritten[w]
               => /\ reqWritten'[w] = reqWritten[w] + 1
                  /\ respRead[w] = reqWritten[w]
                  /\ \A t \in Handled(w) : t # cur[w] => Resolved(t)
      ]_vars

\* A worker that has answered one task and has the request of a second one
\* in flight.
C7_Witness ==
    \E w \in Workers : reqWritten[w] = 2 /\ respRead[w] = 1 /\ wstate[w] = "BusyRead"

\* ==================================================================== C8
\* C8: the task queue never holds more than its capacity; a submission made
\* while the queue is full stays blocked until a slot is free; a submitted
\* task is in the queue exactly once from its send until a worker dequeues
\* it (neither dropped nor duplicated).
C8_BoundedQueue ==
    [][ /\ Len(taskQueue') <= QueueCap
        /\ \A t \in Tasks :
             /\ Occurrences(t)' <= 1
             /\ InQueue(t)' <=> (tstate'[t] = "waiting" /\ dequeuedBy'[t] = <<>>)
             /\ (tstate[t] = "sending" /\ tstate'[t] = "waiting")
                  => (Len(taskQueue) < QueueCap /\ taskQueue' = Append(taskQueue, t))
             /\ (tstate[t] = "sending" /\ Len(taskQueue) = QueueCap /\ ~queueClosed)
                  => tstate'[t] = "sending"
      ]_vars

\* The queue is full and a caller is blocked in its send.
C8_Witness ==
    /\ Len(taskQueue) = QueueCap
    /\ ~queueClosed
    /\ \E t \in Tasks : tstate[t] = "sending"
    /\ \E w \in Workers : wstate[w] = "Ready"

\* ==================================================================== C9
\* C9: when Close returns, every worker goroutine has exited and every
\* process the pool ever started (one whose handshake failed included) has
\* been terminated and has its streams closed.
C9_CloseLeavesNoProcess ==
    closePc = "returned" =>
        \A w \in Workers :
            /\ wstate[w] = "Closed"
            /\ proc[w] # "running"
            /\ ~stdinOpen[w]
            /\ ~stdoutOpen[w]

\* =================================================================== C10
\* C10: Close returns only after every task enqueued before Close was
\* called is resolved, given a live worker when Close was called.
C10_CloseDrainsQueue ==
    (closePc = "returned" /\ liveAtClose) =>
        \A t \in Tasks : Enqueued(t) => Resolved(t)

\* The warm-up tasks main submits before serving: none, main goes from
\* NewMatcher straight to the HTTP server.
WarmupTasks == {}
ExternalTasks == Tasks \ WarmupTasks

C12_WarmupBeforeExternal ==
    \A t \in ExternalTasks :
        dequeuedBy[t] # <<>> =>
            Cardinality({u \in WarmupTasks : Resolved(u)}) = WorkerCount

\* =================================================================== C13
\* C13: after the sequential warm-up of N workers every worker has processed
\* one warm-up task. (Stated leniently: only runs in which every worker
\* started and every warm-up call succeeded are held against the claim.)
C13_EveryWorkerWarmed ==
    ((\A w \in Workers : handshook[w]) /\ (\A t \in WarmupCalls : tstate[t] = "done_ok"))
        => \A w \in Workers : \E t \in WarmupCalls : dequeuedBy[t] = <<w>>

\* =================================================================== C14
\* C14: a worker that is in the pool or has dequeued a task wrote exactly
\* one configuration line and read exactly one response line, whose status
\* was "ready"; a worker whose handshake went otherwise has both streams
\* closed and has dequeued nothing.
C14_HandshakeBeforeDequeue ==
    \A w \in Workers :
        /\ (Live(w) \/ Handled(w) # {}) =>
               cfgWritten[w] = 1 /\ hsLines[w] = <<"ready">>
        /\ (wstate[w] \notin {"Unspawned", "Starting"} /\ hsLines[w] # <<"ready">>) =>
               /\ wstate[w] = "Closed"
               /\ ~stdinOpen[w]
               /\ ~stdoutOpen[w]
               /\ Handled(w) = {}

\* One worker dequeued a task after a "ready" line while another, whose
\* line carried another status, is closed.
C14_Witness ==
    \E w, x \in Workers :
        /\ hsLines[w] = <<"ready">>
        /\ Handled(w) # {}
        /\ hsLines[x] = <<"badstatus">>
        /\ wstate[x] = "Closed"

\* =================================================================== C15
\* C15: a request whose response does not come ends for its caller, with an
\* error, instead of waiting indefinitely. (Stated leniently: a crash of the
\* Go process is not held against the claim.)
C15_TimeoutEndsWait ==
    \A t \in Tasks :
        (\E w \in Workers : cur[w] = t /\ wstate[w] = "BusyRead")
            ~> (tstate[t] \in {"done_ok", "done_err"} \/ ~Running)

\* The cleaned-up word sequence of the document, and what was done with it.
InWords == Fields(CleanUp(redIn.words))
Reduced == redOut # NoOut /\ redOut.reduced
Processed == redOut # NoOut /\ redOut.call = "Process"

RECURSIVE TextWords(_)
TextWords(text) == IF text = <<>> THEN 0 ELSE Len(Head(text)) + TextWords(Tail(text))

\* =================================================================== C16
\* C16: for every document whose cleaned-up word sequence is shorter than
\* one chunk, Handler.Process gets the input text back unchanged from its
\* reduction step, without a fault.
C16_ZeroChunksUnchanged ==
    (Processed /\ Len(InWords) < redIn.cfg.ChunkSize) =>
        redOut.status = "ok" /\ redOut.text = <<redIn.words>>

\* =================================================================== C17
\* C17: for every chunk size C, overlap O < C and word sequence of fewer
\* than C words, createChunks returns zero chunks.
C17_ShortInputNoChunks ==
    (Reduced /\ Len(InWords) < redIn.cfg.ChunkSize) =>
        /\ createChunks(InWords, redIn.cfg.ChunkSize, redIn.cfg.Overlap)
               = [status |-> "ok", chunks |-> <<>>]
        /\ redOut.chunks = <<>>

\* createChunks was applied to a non-empty word sequence shorter than the
\* overlap.
C17_Witness ==
    /\ Reduced
    /\ InWords # <<>>
    /\ Len(InWords) < redIn.cfg.Overlap
    /\ redOut.chunks = <<>>

\* =================================================================== C18
\* C18: for 0 <= O < C and N >= C words createChunks yields exactly
\* floor((N - O)/(C - O)) chunks; chunk i has id i and is the C words
\* [i*step, i*step + C) with step = C - O, so chunk i+1 starts step words
\* after chunk i, and every chunk lies within the word sequence.
C18_ChunkCountAndSpans ==
    (Reduced /\ Len(InWords) >= redIn.cfg.ChunkSize) =>
        LET C == redIn.cfg.ChunkSize
            O == redIn.cfg.Overlap
            N == Len(InWords)
            step == C - O
            ch == redOut.chunks
        IN /\ createChunks(InWords, C, O).status = "ok"
           /\ Len(ch) = (N - O) \div step
           /\ \A i \in 1..Len(ch) :
                /\ ch[i].Id = i - 1
                /\ ch[i].StartWordIndex = (i - 1) * step
                /\ ch[i].EndWordIndex = (i - 1) * step + C
                /\ ch[i].EndWordIndex <= N
                /\ ch[i].WordCount = C
                /\ ch[i].Words = [j \in 1..C |-> InWords[(i - 1) * step + j]]
                /\ i < Len(ch) => ch[i + 1].StartWordIndex = ch[i].StartWordIndex + step

\* Two or more overlapping chunks with different words were cut.
C18_Witness ==
    /\ Reduced
    /\ redIn.cfg.Overlap >= 1
    /\ Len(redOut.chunks) >= 2
    /\ redOut.chunks[2].Words # redOut.chunks[1].Words

\* =================================================================== C19
\* C19: whenever at least one chunk exists, ReduceContent's selection
\* contains chunk 0 and the reduced text begins with chunk 0's full text.
C19_OpeningChunkKept ==
    (Reduced /\ redOut.chunks # <<>>) =>
        /\ redOut.status = "ok"
        /\ \E i \in 1..Len(redOut.selected) : redOut.selected[i] = 0
        /\ redOut.text # <<>>
        /\ redOut.text[1] = redOut.chunks[1].Words
        /\ redOut.text[1] = SubSeq(InWords, 1, redIn.cfg.ChunkSize)

\* Of three or more chunks two were selected, the second one by its score
\* (it is not the chunk next to chunk 0).
C19_Witness ==
    /\ Reduced
    /\ Len(redOut.chunks) >= 3
    /\ Len(redOut.selected) = 2
    /\ redOut.selected[2] = 2

\* =================================================================== C20
\* C20: the text ReduceContent returns has at least the target number of
\* words, unless there are too few words, and then all chunks are selected.
\* (Stated leniently: selecting all chunks is accepted whatever the number
\* of words available.)
C20_ReachesTarget ==
    (Reduced /\ redOut.status = "ok") =>
        \/ TextWords(redOut.text) >= redIn.cfg.TargetWords
        \/ Len(redOut.selected) = Len(redOut.chunks)

\* =================================================================== C21
\* C21 as stated: with at least one chunk, the text ReduceContent returns
\* has strictly fewer than TargetWords + ChunkSize words.
C21_BelowTargetPlusChunk ==
    (Reduced /\ redOut.status = "ok") =>
        TextWords(redOut.text) < redIn.cfg.TargetWords + redIn.cfg.ChunkSize

\* C21: with at least one chunk, the text ReduceContent returns has strictly
\* fewer than TargetWords + ChunkSize words when TargetWords is at least 1;
\* with TargetWords 0 it is chunk 0 alone, exactly ChunkSize words.
C21_BelowTargetPlusChunkPositive ==
    (Reduced /\ redOut.chunks # <<>>) =>
        /\ redOut.status = "ok"
        /\ redIn.cfg.TargetWords >= 1 =>
              TextWords(redOut.text) < redIn.cfg.TargetWords + redIn.cfg.ChunkSize
        /\ redIn.cfg.TargetWords = 0 =>
              /\ redOut.selected = <<0>>
              /\ TextWords(redOut.text) = redIn.cfg.ChunkSize

\* Two or more chunks were selected and the text is one word short of the
\* bound.
C21_Witness ==
    /\ Reduced
    /\ redOut.status = "ok"
    /\ Len(redOut.selected) >= 2
    /\ TextWords(redOut.text) = redIn.cfg.TargetWords + redIn.cfg.ChunkSize - 1

\* =================================================================== C22
\* C22: the reassembled text is chunk 0's words followed, for every other
\* selected chunk in Id order, by its words after the first Overlap ones:
\* with k selected chunks it has C + (k - 1)*(C - O) words.
C22_ReassembledWordCount ==
    (Reduced /\ redOut.status = "ok") =>
        LET C == redIn.cfg.ChunkSize
            O == redIn.cfg.Overlap
            k == Len(redOut.selected)
            ids == {redOut.selected[i] : i \in 1..k}
            inOrder == SelectSeq(redOut.chunks, LAMBDA c : c.Id \in ids)
        IN /\ Len(redOut.text) = k
           /\ Len(inOrder) = k
           /\ TextWords(redOut.text) = C + (k - 1) * (C - O)
           /\ \A i \in 1..k :
                Len(redOut.text[i]) = IF i = 1 THEN inOrder[i].WordCount
                                      ELSE inOrder[i].WordCount - O
           /\ \A i \in 2..k :
                \A j \in 1..(C - O) : redOut.text[i][j] = inOrder[i].Words[O + j]

\* Two or more chunks with an overlap were reassembled.
C22_Witness ==
    /\ Reduced
    /\ redOut.status = "ok"
    /\ redIn.cfg.Overlap >= 1
    /\ Len(redOut.selected) >= 2
    /\ Len(redOut.text) = Len(redOut.selected)

\* Fractions: equality and order by cross-multiplication.
FracEq(x, y) == x.n * y.d = y.n * x.d
FracLess(x, y) == x.n * y.d < y.n * x.d
NoDup(q) == \A i, j \in 1..Len(q) : q[i] = q[j] => i = j
Compared == simOut # NoOut /\ simOut.call = "jaccardSimilarity"

\* =================================================================== C23
\* C23: for duplicate-free token lists a and b, jaccardSimilarity(a, b) =
\* jaccardSimilarity(b, a), the value is in [0,1], it is 0 when the lists
\* are disjoint or both empty, and 1 when they hold the same tokens and are
\* not empty.
C23_JaccardProperties ==
    (Compared /\ NoDup(simIn.a) /\ NoDup(simIn.b)) =>
        /\ simOut.ab.d > 0 /\ simOut.ba.d > 0
        /\ FracEq(simOut.ab, simOut.ba)
        /\ 0 <= simOut.ab.n /\ simOut.ab.n <= simOut.ab.d
        /\ Range(simIn.a) \cap Range(simIn.b) = {} => simOut.ab.n = 0
        /\ (simIn.a = <<>> /\ simIn.b = <<>>) => simOut.ab.n = 0
        /\ (Range(simIn.a) = Range(simIn.b) /\ simIn.a # <<>>) => simOut.ab.n = simOut.ab.d

\* Two duplicate-free lists that share one of their three tokens were
\* compared.
C23_Witness ==
    /\ Compared
    /\ NoDup(simIn.a) /\ NoDup(simIn.b)
    /\ simOut.ab = [n |-> 1, d |-> 3]

\* =================================================================== C25
\* The factor the configured values ask for: none up to a similarity of
\* DiversityThreshold, else 1 - 2*similarity, at least MinPenalty.
ConfiguredPenalty(sim, cfg) ==
    IF FracLess(cfg.DiversityThreshold, sim)
    THEN IF FracLess([n |-> sim.d - 2 * sim.n, d |-> sim.d], cfg.MinPenalty)
         THEN cfg.MinPenalty
         ELSE [n |-> sim.d - 2 * sim.n, d |-> sim.d]
    ELSE [n |-> 1, d |-> 1]

\* C25: the selector penalises a remaining chunk when its similarity exceeds
\* the configuration's DiversityThreshold, by a factor of at least the
\* configuration's MinPenalty.
C25_ConfiguredValuesUsed ==
    (simOut # NoOut /\ simOut.call = "penalty") =>
        FracEq(simOut.factor, ConfiguredPenalty(simOut.similarity, simIn.cfg))

\* =================================================================== C24
\* C24: whenever at least one chunk exists, chunks without any alphanumeric
\* token included, every normalized term-frequency score is a defined
\* number in [0,1] and they sum to 1. (Stated leniently: the graph scores
\* are not held against the claim.)
C24_NormalizedScoresSumToOne ==
    (redOut # NoOut /\ redOut.call = "tfScores" /\ redOut.chunks # <<>>) =>
        LET norm == [i \in 1..Len(redOut.tf) |-> redOut.tf[i].NormalizedTFScore]
        IN /\ \A i \in 1..Len(norm) :
                norm[i].kind = "num" /\ 0 <= norm[i].n /\ norm[i].n <= norm[i].d
           /\ SumOver(norm, Len(norm)) = Num(1, 1)

\* What a caller's finished cache operation was.
Returned(p, op) == cret[p].op = op

\* =================================================================== C26
\* C26: a second GetMissingAndAdd call with the names of the call before it
\* returns an empty list, adds exactly len(names) to the hit counter and
\* leaves the set of cached names as it was.
C26_SecondCallAllHits ==
    \A p \in Callers :
        (Returned(p, "GetMissingAndAdd") /\ cret[p].repeat) =>
            /\ cret[p].missing = <<>>
            /\ cret[p].hitsAdded = Len(cret[p].keys)
            /\ cret[p].namesAdded = {}

\* A caller repeated a call with two names.
C26_Witness ==
    \E p \in Callers :
        /\ Returned(p, "GetMissingAndAdd")
        /\ cret[p].repeat
        /\ Len(cret[p].keys) = 2
        /\ cret[p].hitsAdded = 2

\* =================================================================== C27
\* C27: GetMissingAndAdd(keys) returns the names of keys that were not
\* cached before the call, each once; afterwards every name of keys is
\* cached; a name cached before is not returned and its entry's hit count
\* went up by one per occurrence in keys.
C27_ReturnsExactlyTheMissing ==
    \A p \in Callers :
        Returned(p, "GetMissingAndAdd") =>
            /\ cret[p].missing =
                   Dedup(SelectSeq(cret[p].keys, LAMBDA k : k \notin cret[p].present0))
            /\ NoDup(cret[p].missing)
            /\ cret[p].allPresent
            /\ \A k \in cret[p].present0 :
                  /\ k \notin Range(cret[p].missing)
                  /\ cret[p].bumps[k] = Count(cret[p].keys, k)

\* A call found one of its names cached and the other not.
C27_Witness ==
    \E p \in Callers :
        /\ Returned(p, "GetMissingAndAdd")
        /\ cret[p].present0 # {}
        /\ cret[p].missing # <<>>

\* =================================================================== C28
\* C28: no read of the cache's shared state is ever concurrent with a
\* write: every operation accesses it under the lock.
C28_NoReadDuringWrite == ~readDuringWrite

\* =================================================================== C29
\* C29: GetMissingAndAdd leaves one entry per name ever looked up (and, as
\* long as AddNewTags has stored nothing, no other entry); no entry is ever
\* removed, Size never decreases, and a lookup never lowers the hit count
\* of an entry that was there.
C29_EntriesOnlyAdded ==
    [][/\ lookedUp' \subseteq DOMAIN items'
       /\ tagsAdded' = {} => DOMAIN items' = lookedUp'
       /\ Names \subseteq DOMAIN items'
       /\ Cardinality(DOMAIN items') >= Cardinality(Names)
       /\ (hits' # hits \/ misses' # misses) =>
             \A k \in Names : items'[k].hits >= items[k].hits]_vars

\* Both names were looked up, one of them again, and nothing else was
\* stored.
C29_Witness ==
    /\ tagsAdded = {}
    /\ lookedUp = CacheNames
    /\ Names = CacheNames
    /\ \E k \in Names : items[k].hits >= 1

\* =================================================================== C30
\* C30: HitRate returns hits/(hits+misses) of the lookups performed so far
\* (of some moment of the call), 0 when there was no lookup, and a value in
\* [0,1].
C30_HitRateIsTheRatio ==
    \A p \in Callers :
        Returned(p, "HitRate") =>
            /\ cret[p].exact
            /\ 0 <= cret[p].n
            /\ cret[p].n <= cret[p].d

\* =================================================================== C31
\* C31: when HandleProcessUntagged is over, every fetched document was
\* attempted once, in the fetched order; processed + failed = total; and
\* failed_document_ids is in the response exactly when failed > 0 and lists
\* the ids of the documents whose Process returned an error.
BatchOver == batch.pc \in {"responded", "panicked"}

C31_EveryDocumentAttempted ==
    BatchOver =>
        /\ batch.attempted = [i \in 1..Len(batch.documents) |-> batch.documents[i].ID]
        /\ batch.pc = "responded"
        /\ batch.response.processed + batch.response.failed = batch.response.total
        /\ ("failed_document_ids" \in DOMAIN batch.response) = (batch.response.failed > 0)
        /\ batch.response.failed > 0 =>
              batch.response.failed_document_ids = batch.errored

\* The same when no document made Process panic.
RespondedBatchIsComplete ==
    batch.pc = "responded" =>
        /\ batch.attempted = [i \in 1..Len(batch.documents) |-> batch.documents[i].ID]
        /\ batch.response.processed + batch.response.failed = batch.response.total
        /\ ("failed_document_ids" \in DOMAIN batch.response) = (batch.response.failed > 0)
        /\ batch.response.failed > 0 =>
              batch.response.failed_document_ids = batch.errored

\* =================================================================== C32
\* C32: for every CPU count >= 1 and every memory size the default worker
\* count is min(max(min(workersByMemory, workersByCPU), 1), 6), with
\* workersByCPU = min(cpuCores, 6) and workersByMemory =
\* max(min(usableMemoryMB / modelMemoryMB, 6), 1), and lies in 1..6.
Computed(m) == sizing # NoSizing /\ sizing.count[m] # 0

UsableOf(m) == usableMemoryMB(availableMemoryMB(sizing.meminfo[m]))

C32_WorkerCountFormula ==
    \A m \in Machines :
        Computed(m) =>
            LET byCPU == min(sizing.cpuCores, 6)
                byMemory == max(min(UsableOf(m) \div modelMemoryMB, 6), 1)
            IN /\ sizing.count[m] = min(max(min(byMemory, byCPU), 1), 6)
               /\ sizing.count[m] \in 1..6

\* A machine with more than six cores whose memory allows three workers.
C32_Witness ==
    /\ Computed(1)
    /\ sizing.cpuCores > 6
    /\ sizing.count[1] = 3

\* =================================================================== C37
\* C37: with the same number of CPU cores, a machine with less total memory
\* never gets more workers than a machine with more.
C37_MonotoneInMemory ==
    (/\ Computed(1)
     /\ Computed(2)
     /\ sizing.meminfo[1].kind = "kb"
     /\ sizing.meminfo[2].kind = "kb"
     /\ sizing.meminfo[1].kb <= sizing.meminfo[2].kb)
        => sizing.count[1] <= sizing.count[2]

\* =================================================================== C33
\* An iteration of the selection loop took the remaining chunk with the
\* highest FinalScore, multiplied the FinalScore of every other remaining
\* chunk by Factor(its similarity to the chunk taken), and neither lost a
\* chunk nor took one twice.
Ids(q) == {q[i].Id : i \in 1..Len(q)}

IterationFollows(Factor(_)) ==
    LET rem == loop.remainingChunks
        rem2 == loop'.remainingChunks
        sel2 == loop'.selectedChunks
        c == sel2[Len(sel2)]
    IN /\ sel2 = Append(loop.selectedChunks, c)
       /\ \E i \in 1..Len(rem) : rem[i] = c
       /\ \A i \in 1..Len(rem) : ~FracLess(c.FinalScore, rem[i].FinalScore)
       /\ Len(rem2) = Len(rem) - 1
       /\ Ids(rem2) = Ids(rem) \ {c.Id}
       /\ Ids(rem2) \cap Ids(sel2) = {}
       /\ Cardinality(Ids(sel2)) = Len(sel2)
       /\ \A i \in 1..Len(rem) :
             rem[i].Id # c.Id =>
                \E j \in 1..Len(rem2) :
                   /\ rem2[j].Id = rem[i].Id
                   /\ FracEq(rem2[j].FinalScore,
                             Times(rem[i].FinalScore,
                                   Factor(jaccardSimilarity(c.UniqueTokens,
                                                            rem[i].UniqueTokens))))

Iterated == loop.pc = "loop" /\ loop'.pc = "loop" /\ loop' # loop

FactorConfigured(sim) == ConfiguredPenalty(sim, loop.cfg)

\* C33: every iteration of the selection loop adds the remaining chunk with
\* the highest current FinalScore, multiplies by max(1 - 2*similarity,
\* MinPenalty) the score of exactly the remaining chunks more similar to it
\* than DiversityThreshold, and never selects a chunk twice or drops one.
C33_IterationAsConfigured ==
    [][Iterated => IterationFollows(FactorConfigured)]_vars

\* The same with the values 0.15 and 0.1 whatever the configuration says.
IterationWithLiterals ==
    [][Iterated => IterationFollows(Penalty)]_vars

\* =================================================================== C34
\* The selected chunk ids in ascending order.
RECURSIVE Ascending(_)
Ascending(S) ==
    IF S = {} THEN <<>>
    ELSE LET lo == CHOOSE x \in S : \A y \in S : x <= y
         IN <<lo>> \o Ascending(S \ {lo})

\* The positions (from 1) of the input words a text line gives for chunk
\* id: the chunk's words, without the first Overlap ones after the first
\* line.
EmittedPositions(id, line) ==
    LET start == id * (redIn.cfg.ChunkSize - redIn.cfg.Overlap)
        from == IF line = 1 THEN start + 1 ELSE start + redIn.cfg.Overlap + 1
    IN [k \in 1..(start + redIn.cfg.ChunkSize - from + 1) |-> from + k - 1]

RECURSIVE Flatten(_)
Flatten(qs) == IF qs = <<>> THEN <<>> ELSE Head(qs) \o Flatten(Tail(qs))

\* C34: the returned text is a subsequence of the cleaned-up input words:
\* its lines are the selected chunks in ascending Id, every word is the
\* input word of its own position, and the positions increase strictly
\* through the whole text, so none is emitted twice.
C34_TextIsSubsequence ==
    (Reduced /\ redOut.status = "ok") =>
        LET ids == Ascending({redOut.selected[i] : i \in 1..Len(redOut.selected)})
            positions == [i \in 1..Len(ids) |-> EmittedPositions(ids[i], i)]
            all == Flatten(positions)
        IN /\ Len(redOut.text) = Len(ids)
           /\ \A i \in 1..Len(ids) :
                 /\ \A k \in 1..Len(positions[i]) : positions[i][k] \in 1..Len(InWords)
                 /\ redOut.text[i] = [k \in 1..Len(positions[i]) |-> InWords[positions[i][k]]]
           /\ \A k \in 1..(Len(all) - 1) : all[k] < all[k + 1]

\* Two adjacent chunks that overlap were both selected.
C34_Witness ==
    /\ Reduced
    /\ redOut.status = "ok"
    /\ redIn.cfg.Overlap >= 1
    /\ \E i, j \in 1..Len(redOut.selected) : redOut.selected[j] = redOut.selected[i] + 1
    /\ Len(redOut.text) >= 2

\* =================================================================== C35
InLookup(p) == cop[p].op = "GetMissingAndAdd"

\* C35: GetMissingAndAdd calls of several callers act one after the other:
\* while a caller is inside a call nobody else changes the map or the
\* counters, a name is returned as missing by at most one of the calls, and
\* every call counts each of its names either as missing or as a hit.
C35_LookupsAreSerial ==
    [][/\ \A p \in Callers :
             (InLookup(p) /\ cop'[p] = cop[p]) =>
                 (items' = items /\ hits' = hits /\ misses' = misses)
       /\ \A p, q \in Callers :
             (/\ p # q
              /\ Returned(p, "GetMissingAndAdd")'
              /\ Returned(q, "GetMissingAndAdd")') =>
                 Range(cret'[p].missing) \cap Range(cret'[q].missing) = {}
       /\ \A p \in Callers :
             Returned(p, "GetMissingAndAdd")' =>
                 /\ cret'[p].hitsAdded + Len(cret'[p].missing) = Len(cret'[p].keys)
                 /\ cret'[p].missing =
                        Dedup(SelectSeq(cret'[p].keys,
                                        LAMBDA k : k \notin cret'[p].present0))]_vars

\* Two callers looked up the same name: one got it back as missing, the
\* other counted a hit.
C35_Witness ==
    \E p, q \in Callers :
        /\ p # q
        /\ Returned(p, "GetMissingAndAdd")
        /\ Returned(q, "GetMissingAndAdd")
        /\ \E k \in Range(cret[p].missing) :
              k \in Range(cret[q].keys) /\ k \notin Range(cret[q].missing)
        /\ cret[q].hitsAdded >= 1

\* =================================================================== C36
RECURSIVE EntryHits(_)
EntryHits(S) ==
    IF S = {} THEN 0
    ELSE LET k == CHOOSE x \in S : TRUE IN items[k].hits + EntryHits(S \ {k})

\* C36: on a cache only GetMissingAndAdd has written to, misses is the
\* number of entries, hits is the sum of the entries' hit counts, and once
\* every call has returned hits + misses is the number of names passed in.
C36_CountersAddUp ==
    tagsAdded = {} =>
        /\ misses = Cardinality(Names)
        /\ hits = EntryHits(Names)
        /\ (\A p \in Callers : ~InLookup(p)) => hits + misses = passed

\* Calls with three names or more have returned, with hits and misses.
C36_Witness ==
    /\ tagsAdded = {}
    /\ \A p \in Callers : ~InLookup(p)
    /\ passed >= 3
    /\ hits >= 1
    /\ misses >= 2

====
